---- MODULE Spec2Model ----
(***************************************************************************)
(* Model of the split-and-expand image tool: the App component's state     *)
(* (item list, settings, processing flag), its handlers (upload, batch     *)
(* start, retry, removal, clear-all), the splitter (imageUtils.splitImage) *)
(* and the expander client (expandImageWithGemini).                        *)
(*                                                                         *)
(* Scheduling: the browser runs one handler or promise continuation at a   *)
(* time.  A click handler is one action.  The continuation of              *)
(* startProcessing that runs after `await splitImage` issues several       *)
(* setItems updates in a row (lines 139-147, then the next loop iteration);*)
(* each update is one step of the model, and while that continuation runs  *)
(* (pc is "l146", "l147" or "l129") no other handler can run.              *)
(***************************************************************************)
EXTENDS Integers, Sequences, FiniteSets, Bags, TLC

\* ------------------------------------------------------------- bounds
\* Number of identifiers uuidv4 hands out in a run (items ever created).
MaxItems == 2
\* Largest width and height of an uploaded image, in pixels.
MaxW == 3
MaxH == 2
\* Size of the remote responses considered: candidates, and parts per candidate.
MaxCandidates == 2
MaxParts == 2

VARIABLES
    items,           \* App state `items`: the list of ProcessedImage records
    splitDirection,  \* App state `splitDirection`
    isProcessing,    \* App state `isProcessing`
    showSettings,    \* App state `showSettings`
    settings,        \* App state `settings` (GeminiSettings)
    uploads,         \* handleFilesAdded calls still reading their files (bag of file counts)
    batch,           \* locals of the running startProcessing call
    pc,              \* position of the running startProcessing call
    calls,           \* processImagePart calls awaiting expandImageWithGemini (bag)
    nextId,          \* next identifier uuidv4 returns
    splits,          \* per identifier: how many times splitImage was called on its source
    lastOp           \* the pipeline click handled by the last step, NoOp after any other step

vars == << items, splitDirection, isProcessing, showSettings, settings,
           uploads, batch, pc, calls, nextId, splits, lastOp >>

\* ------------------------------------------------------------- types.ts
Horizontal == "HORIZONTAL"
Vertical == "VERTICAL"
SplitDirection == {Horizontal, Vertical}

Idle == "IDLE"
Splitting == "SPLITTING"
Expanding == "EXPANDING"
Done == "DONE"
Error == "ERROR"
ProcessStatus == {Idle, Splitting, Expanding, Done, Error}

\* `null` of the url fields
Null == << >>

Ids == 1..MaxItems
Parts == {1, 2}

\* A freshly uploaded item.  originalUrl is the data URL of the file; App never
\* looks into it, so it is identified with the item's file.
NewItem(id) ==
    [ id |-> id,
      originalUrl |-> id,
      splitPart1 |-> [url |-> Null, expandedUrl |-> Null, status |-> Idle],
      splitPart2 |-> [url |-> Null, expandedUrl |-> Null, status |-> Idle] ]

\* item[partKey] and {...item, [partKey]: v}
PartOf(item, p) == IF p = 1 THEN item.splitPart1 ELSE item.splitPart2
WithPart(item, p, v) ==
    IF p = 1 THEN [item EXCEPT !.splitPart1 = v] ELSE [item EXCEPT !.splitPart2 = v]

ItemIds(list) == {list[k].id : k \in 1..Len(list)}
\* items.find(i => i.id === id), for an id that is in the list
FindItem(list, id) == list[CHOOSE k \in 1..Len(list) : list[k].id = id]

\* ------------------------------------------------------------- services/imageUtils.ts
\* The sizes of the images loadImage can resolve with: width and height in pixels.
Images == [w : 1..MaxW, h : 1..MaxH]
\* Under Spec every uploaded file decodes to the largest size; SplitSpec splits
\* sources of every size.
UploadedImages == {[w |-> MaxW, h |-> MaxH]}

\* The payload of the data URL of a canvas with a zero dimension: the empty string.
NoPixels == [src |-> 0, width |-> 0, height |-> 0, sx |-> 0, sy |-> 0]

\* canvas.toDataURL('image/png') of a canvas of size cw x ch holding the region of
\* source src that starts at (sx, sy): the text before the comma and the payload.
\* A canvas with a zero dimension encodes to "data:,", whatever was drawn.
toDataURL(cw, ch, src, sx, sy) ==
    IF cw = 0 \/ ch = 0
    THEN << "data:", NoPixels >>
    ELSE << "data:image/png;base64",
            [src |-> src, width |-> cw, height |-> ch, sx |-> sx, sy |-> sy] >>

\* Mutant of splitImage: the second canvas takes the rest of the source, so the
\* two parts together cover an odd width or height.
splitImageRemainder(imageSrc, img, direction) ==
    IF direction = Horizontal
    THEN LET halfWidth == img.w \div 2
         IN  << toDataURL(halfWidth, img.h, imageSrc, 0, 0),
                toDataURL(img.w - halfWidth, img.h, imageSrc, halfWidth, 0) >>
    ELSE LET halfHeight == img.h \div 2
         IN  << toDataURL(img.w, halfHeight, imageSrc, 0, 0),
                toDataURL(img.w, img.h - halfHeight, imageSrc, 0, halfHeight) >>

\* splitImage(imageSrc, direction), after loadImage(imageSrc) resolved with img:
\* the pair (Part 1, Part 2).
\* The canvas is sized once per direction and reused for the second part.
splitImage(imageSrc, img, direction) ==
    IF direction = Horizontal
    THEN LET halfWidth == img.w \div 2
         IN  << toDataURL(halfWidth, img.h, imageSrc, 0, 0),
                toDataURL(halfWidth, img.h, imageSrc, halfWidth, 0) >>
    ELSE LET halfHeight == img.h \div 2
         IN  << toDataURL(img.w, halfHeight, imageSrc, 0, 0),
                toDataURL(img.w, halfHeight, imageSrc, 0, halfHeight) >>

\* Pixel size of an encoded image; the empty data URL decodes to no pixels.
WidthOf(url) == url[2].width
HeightOf(url) == url[2].height

\* ------------------------------------------------------------- services/geminiService
\* One part of a response candidate: "text" has no inlineData, "nodata" has
\* inlineData with an empty data field, "image" carries image data.
PartKinds == {"text", "nodata", "image"}

SeqsUpTo(S, n) == UNION {[1..k -> S] : k \in 0..n}

\* What the remote call can come back with: a rejection, or a response whose
\* candidates each hold a list of parts (a candidate may have none).
Responses ==
    {[error |-> TRUE, candidates |-> << >>]} \cup
    {[error |-> FALSE, candidates |-> c] :
        c \in SeqsUpTo(SeqsUpTo(PartKinds, MaxParts), MaxCandidates)}

\* The image data of part k of candidate c is told apart from all other image
\* data of the response by its candidate and its rank among that candidate's images.
DataOf(parts, c, k) ==
    [candidate |-> c, image |-> Cardinality({j \in 1..k : parts[j] = "image"})]

\* The loop over response.candidates?.[0]?.content?.parts from part k on: the
\* data of the first part that carries image data; Null when there is none.
RECURSIVE FirstImage(_, _)
FirstImage(parts, k) ==
    IF k > Len(parts) THEN Null
    ELSE IF parts[k] = "image" THEN << DataOf(parts, 1, k) >>
         ELSE FirstImage(parts, k + 1)

\* What expandImageWithGemini does with the response resp: [ok, found], where
\* found is the image data it returns.  Every failure is rethrown to the caller.
ParseResponse(resp) ==
    IF resp.error THEN [ok |-> FALSE, found |-> Null]
    ELSE LET parts == IF Len(resp.candidates) = 0 THEN << >> ELSE resp.candidates[1]
             found == FirstImage(parts, 1)
         IN  [ok |-> found # Null, found |-> found]

\* base64Image.split(',')[1] || base64Image: the payload sent, which is the
\* whole string when the payload is empty.
cleanBase64(base64Image) ==
    IF base64Image[2] = NoPixels THEN base64Image ELSE << base64Image[2] >>

\* Whether expandImageWithGemini sends a remote request for these settings.
SendsRequest(s) == s.apiKey # ""

\* The ways a sent request can end.
RemoteOutcomes == {ParseResponse(r) : r \in Responses}

\* The outcomes of expandImageWithGemini(base64Image, s): [ok, url].  Without a
\* key it throws before any request is made.  The image returned is the data
\* found in the response to the request that carried this crop.
ExpandOutcomes(base64Image, s) ==
    IF ~SendsRequest(s) THEN {[ok |-> FALSE, url |-> Null]}
    ELSE {[ok |-> o.ok,
           url |-> IF o.ok
                   THEN << "data:image/png;base64",
                           [request |-> cleanBase64(base64Image), data |-> o.found[1]] >>
                   ELSE Null] : o \in RemoteOutcomes}

\* Mutant of expandImageWithGemini: a failed request is sent a second time.
expandImageWithGeminiRetrying(base64Image, s, resp) ==
    IF s.apiKey = "" THEN [ok |-> FALSE, url |-> Null, requests |-> 0]
    ELSE LET o == ParseResponse(resp)
         IN  [ok |-> o.ok,
              url |-> IF o.ok
                      THEN << "data:image/png;base64",
                              [request |-> cleanBase64(base64Image), data |-> o.found[1]] >>
                      ELSE Null,
              requests |-> IF o.ok THEN 1 ELSE 2]

\* expandImageWithGemini(base64Image, s) when the remote call, if one is made,
\* comes back with resp: [ok, url, requests], requests being the number of
\* remote requests sent.
expandImageWithGemini(base64Image, s, resp) ==
    IF s.apiKey = "" THEN [ok |-> FALSE, url |-> Null, requests |-> 0]
    ELSE LET o == ParseResponse(resp)
         IN  [ok |-> o.ok,
              url |-> IF o.ok
                      THEN << "data:image/png;base64",
                              [request |-> cleanBase64(base64Image), data |-> o.found[1]] >>
                      ELSE Null,
              requests |-> 1]

\* ------------------------------------------------------------- App: state updaters
\* The functions handed to setItems; prev is the list they are applied to, and
\* prev.map(f) is [k \in 1..Len(prev) |-> f(prev[k])].

\* handleFilesAdded: (prev) => [...newItems, ...prev]
PrependItems(newItems, prev) == newItems \o prev

\* Mutant of MarkExpanding: the status update is missing.
MarkExpandingSkipped(prev, itemId, partNumber) == prev

\* processImagePart, first update: the part's status becomes Expanding.
MarkExpanding(prev, itemId, partNumber) ==
    LET F(item) ==
            IF item.id # itemId THEN item
            ELSE WithPart(item, partNumber,
                          [PartOf(item, partNumber) EXCEPT !.status = Expanding])
    IN  [k \in 1..Len(prev) |-> F(prev[k])]

\* Mutant of MarkDone: an upsert, which puts an item back when none has the
\* identifier.
MarkDoneUpsert(prev, itemId, partNumber, expandedBase64) ==
    LET F(item) ==
            IF item.id # itemId THEN item
            ELSE WithPart(item, partNumber,
                          [PartOf(item, partNumber) EXCEPT !.expandedUrl = expandedBase64,
                                                           !.status = Done])
    IN  IF \E k \in 1..Len(prev) : prev[k].id = itemId
        THEN [k \in 1..Len(prev) |-> F(prev[k])]
        ELSE << F(NewItem(itemId)) >> \o prev

\* processImagePart, update after the call returned expandedBase64.
MarkDone(prev, itemId, partNumber, expandedBase64) ==
    LET F(item) ==
            IF item.id # itemId THEN item
            ELSE WithPart(item, partNumber,
                          [PartOf(item, partNumber) EXCEPT !.expandedUrl = expandedBase64,
                                                           !.status = Done])
    IN  [k \in 1..Len(prev) |-> F(prev[k])]

\* Mutant of MarkError: the failure is recorded on both parts of the item.
MarkErrorBoth(prev, itemId, partNumber) ==
    LET F(item) ==
            IF item.id # itemId THEN item
            ELSE [item EXCEPT !.splitPart1.status = Error, !.splitPart2.status = Error]
    IN  [k \in 1..Len(prev) |-> F(prev[k])]

\* processImagePart, update in the catch block.
MarkError(prev, itemId, partNumber) ==
    LET F(item) ==
            IF item.id # itemId THEN item
            ELSE WithPart(item, partNumber,
                          [PartOf(item, partNumber) EXCEPT !.status = Error])
    IN  [k \in 1..Len(prev) |-> F(prev[k])]

\* Mutant of MarkSplitting: the identifier test is missing.
MarkSplittingAll(prev, id) ==
    LET F(i) == [i EXCEPT !.splitPart1.status = Splitting, !.splitPart2.status = Splitting]
    IN  [k \in 1..Len(prev) |-> F(prev[k])]

\* startProcessing, first update of a loop iteration: both parts Splitting.
MarkSplitting(prev, id) ==
    LET F(i) ==
            IF i.id = id
            THEN [i EXCEPT !.splitPart1.status = Splitting, !.splitPart2.status = Splitting]
            ELSE i
    IN  [k \in 1..Len(prev) |-> F(prev[k])]

\* Mutant of StoreParts: the crop of the second part is not stored.
StorePartsFirstOnly(prev, id, part1, part2) ==
    LET F(i) ==
            IF i.id = id
            THEN [i EXCEPT !.splitPart1.url = part1, !.splitPart1.status = Idle,
                           !.splitPart2.status = Idle]
            ELSE i
    IN  [k \in 1..Len(prev) |-> F(prev[k])]

\* startProcessing, update after splitImage returned [part1, part2].
StoreParts(prev, id, part1, part2) ==
    LET F(i) ==
            IF i.id = id
            THEN [i EXCEPT !.splitPart1.url = part1, !.splitPart1.status = Idle,
                           !.splitPart2.url = part2, !.splitPart2.status = Idle]
            ELSE i
    IN  [k \in 1..Len(prev) |-> F(prev[k])]

\* Mutant of FilterOut: removal by index, prev.splice(prev.findIndex(...), 1),
\* which drops the last item when the identifier is not found.
FilterOutSplice(prev, id) ==
    IF \E k \in 1..Len(prev) : prev[k].id = id
    THEN LET Keep(item) == item.id # id IN SelectSeq(prev, Keep)
    ELSE SubSeq(prev, 1, Len(prev) - 1)

\* removeItem: prev.filter(item => item.id !== id)
FilterOut(prev, id) ==
    LET Keep(item) == item.id # id IN SelectSeq(prev, Keep)

\* Mutant of ItemsToProcess: the status filter is missing.
ItemsToProcessAll(list) == list

\* Mutant of ItemsToProcess: items left in Splitting are taken up again.
ItemsToProcessUnfinished(list) ==
    LET Unsplit(i) == /\ i.splitPart1.status \in {Idle, Splitting}
                      /\ i.splitPart2.status \in {Idle, Splitting}
    IN  SelectSeq(list, Unsplit)

\* startProcessing: the items whose two parts are both Idle.
ItemsToProcess(list) ==
    LET BothIdle(i) == i.splitPart1.status = Idle /\ i.splitPart2.status = Idle
    IN  SelectSeq(list, BothIdle)

\* The `disabled` attribute of the batch button.
StartDisabled ==
    \/ isProcessing
    \/ Len(items) = 0
    \/ \A k \in 1..Len(items) :
          items[k].splitPart1.status \in {Done, Expanding}

\* ------------------------------------------------------------- App: initial state
\* The API keys a user may have stored or may type; "" is no key.
Keys == {"", "key"}

\* Locals of startProcessing when no call is running.
NoBatch == [queue |-> << >>, settings |-> [apiKey |-> ""], direction |-> Horizontal,
            img |-> Null, parts |-> Null]

\* A click on a control of the pipeline (batch button, retry, remove, clear) with
\* the item and part it was made on (0 where there is none); NoOp for anything else.
Op(name, id, part) == [op |-> name, id |-> id, part |-> part]
NoOp == Op("other", 0, 0)

\* State after the first render and the mount effect, which loads the stored
\* settings and opens the dialog when no key is stored.
Init ==
    /\ items = << >>
    /\ splitDirection = Horizontal
    /\ isProcessing = FALSE
    /\ \E storedKey \in Keys :
          /\ settings = [apiKey |-> storedKey]
          /\ showSettings = (storedKey = "")
    /\ uploads = EmptyBag
    /\ batch = NoBatch
    /\ pc = "none"
    /\ calls = EmptyBag
    /\ nextId = 1
    /\ splits = [id \in Ids |-> 0]
    /\ lastOp = NoOp

\* No handler is in the middle of its synchronous code: a new event can be taken.
Quiescent == pc \in {"none", "await"}

\* ------------------------------------------------------------- settings and direction
OpenSettings ==
    /\ Quiescent
    /\ showSettings' = TRUE
    /\ lastOp' = NoOp
    /\ UNCHANGED << items, splitDirection, isProcessing, settings, uploads, batch,
                    pc, calls, nextId, splits >>

CloseSettings ==
    /\ Quiescent
    /\ showSettings
    /\ showSettings' = FALSE
    /\ lastOp' = NoOp
    /\ UNCHANGED << items, splitDirection, isProcessing, settings, uploads, batch,
                    pc, calls, nextId, splits >>

\* The form's key field is `required`: it submits only a non-empty key.
saveSettings(apiKey) ==
    /\ Quiescent
    /\ showSettings
    /\ apiKey # ""
    /\ settings' = [apiKey |-> apiKey]
    /\ showSettings' = FALSE
    /\ lastOp' = NoOp
    /\ UNCHANGED << items, splitDirection, isProcessing, uploads, batch,
                    pc, calls, nextId, splits >>

setSplitDirection(d) ==
    /\ Quiescent
    /\ splitDirection' = d
    /\ lastOp' = NoOp
    /\ UNCHANGED << items, isProcessing, showSettings, settings, uploads, batch,
                    pc, calls, nextId, splits >>

\* ------------------------------------------------------------- upload
\* Files still unread plus items created never exceed MaxItems.
PendingFiles == LET S == BagToSet(uploads)
                    RECURSIVE Sum(_)
                    Sum(T) == IF T = {} THEN 0
                              ELSE LET n == CHOOSE x \in T : TRUE
                                   IN  n * CopiesIn(n, uploads) + Sum(T \ {n})
                IN  Sum(S)

\* The dropzone hands n image files to handleFilesAdded, which starts reading
\* them; it accepts files only while no batch is running.
UploadStart(n) ==
    /\ Quiescent
    /\ ~isProcessing
    /\ n >= 1
    /\ (nextId - 1) + PendingFiles + n <= MaxItems
    /\ uploads' = uploads (+) SetToBag({n})
    /\ lastOp' = NoOp
    /\ UNCHANGED << items, splitDirection, isProcessing, showSettings, settings,
                    batch, pc, calls, nextId, splits >>

\* All n files of one handleFilesAdded call are read: the new items, in file
\* order, go in front of the list.
handleFilesAdded(n) ==
    /\ Quiescent
    /\ BagIn(n, uploads)
    /\ LET newItems == [k \in 1..n |-> NewItem(nextId + k - 1)]
       IN  items' = PrependItems(newItems, items)
    /\ nextId' = nextId + n
    /\ uploads' = uploads (-) SetToBag({n})
    /\ lastOp' = NoOp
    /\ UNCHANGED << splitDirection, isProcessing, showSettings, settings,
                    batch, pc, calls, splits >>

\* readFileAsDataURL rejects for one of the files: handleFilesAdded throws
\* before its setItems and adds nothing.
UploadFail(n) ==
    /\ Quiescent
    /\ BagIn(n, uploads)
    /\ uploads' = uploads (-) SetToBag({n})
    /\ lastOp' = NoOp
    /\ UNCHANGED << items, splitDirection, isProcessing, showSettings, settings,
                    batch, pc, calls, nextId, splits >>

\* ------------------------------------------------------------- batch processing
\* Head of the `for` loop of startProcessing with q the items not yet visited:
\* mark the next item Splitting and call splitImage on its source, or leave the
\* loop and reset the processing flag.
LoopHead(q, b) ==
    IF q = << >>
    THEN /\ isProcessing' = FALSE
         /\ pc' = "none"
         /\ batch' = NoBatch
         /\ UNCHANGED << items, splits >>
    ELSE /\ isProcessing' = TRUE
         /\ items' = MarkSplitting(items, Head(q))
         /\ splits' = [splits EXCEPT ![Head(q)] = @ + 1]
         /\ pc' = "await"
         /\ batch' = [b EXCEPT !.queue = q, !.img = Null, !.parts = Null]

\* Mutant of startProcessing: the key test is missing.
startProcessingNoKeyTest ==
    /\ pc = "none"
    /\ ~StartDisabled
    /\ lastOp' = Op("startProcessing", 0, 0)
    /\ LET todo == ItemsToProcess(items)
           q == [k \in 1..Len(todo) |-> todo[k].id]
       IN  LoopHead(q, [NoBatch EXCEPT !.settings = settings,
                                       !.direction = splitDirection])
    /\ UNCHANGED << showSettings, splitDirection, settings, uploads, calls, nextId >>

\* Click on the batch button.  Without a key it only opens the settings dialog.
\* Otherwise it captures settings, direction and the items to process, and runs
\* up to the first `await splitImage`.
startProcessing ==
    /\ pc = "none"
    /\ ~StartDisabled
    /\ lastOp' = Op("startProcessing", 0, 0)
    /\ IF settings.apiKey = ""
       THEN /\ showSettings' = TRUE
            /\ UNCHANGED << items, isProcessing, batch, pc, splits >>
       ELSE /\ LET todo == ItemsToProcess(items)
                   q == [k \in 1..Len(todo) |-> todo[k].id]
               IN  LoopHead(q, [NoBatch EXCEPT !.settings = settings,
                                               !.direction = splitDirection])
            /\ UNCHANGED showSettings
    /\ UNCHANGED << splitDirection, settings, uploads, calls, nextId >>

\* splitImage(item.originalUrl, splitDirection) resolves: the source of the
\* current snapshot item decoded to img and was cropped in the direction
\* captured at the click.  The continuation stores both crops and sets both
\* parts back to Idle (lines 139-143).  An item's originalUrl is named by its id.
SplitResolve(img) ==
    /\ pc = "await"
    /\ LET id == Head(batch.queue)
           parts == splitImage(id, img, batch.direction)
       IN  /\ items' = StoreParts(items, id, parts[1], parts[2])
           /\ batch' = [batch EXCEPT !.img = img, !.parts = parts]
           /\ lastOp' = NoOp
    /\ pc' = "l146"
    /\ UNCHANGED << splitDirection, isProcessing, showSettings, settings, uploads,
                    calls, nextId, splits >>

\* Mutant of SplitReject: the catch block records the failure as Error on both
\* parts of the item.
SplitRejectMarksError ==
    /\ pc = "await"
    /\ pc' = "l129"
    /\ items' = MarkError(MarkError(items, Head(batch.queue), 1), Head(batch.queue), 2)
    /\ lastOp' = NoOp
    /\ UNCHANGED << splitDirection, isProcessing, showSettings, settings,
                    uploads, batch, calls, nextId, splits >>

\* Mutant of SplitReject: there is no catch block, so the rejection ends
\* startProcessing before it resets the processing flag.
SplitRejectUncaught ==
    /\ pc = "await"
    /\ pc' = "none"
    /\ batch' = NoBatch
    /\ lastOp' = NoOp
    /\ UNCHANGED << items, splitDirection, isProcessing, showSettings, settings,
                    uploads, calls, nextId, splits >>

\* splitImage rejects (the source does not decode, or no 2d context): the catch
\* block only logs, and the loop goes on.
SplitReject ==
    /\ pc = "await"
    /\ pc' = "l129"
    /\ lastOp' = NoOp
    /\ UNCHANGED << items, splitDirection, isProcessing, showSettings, settings,
                    uploads, batch, calls, nextId, splits >>

\* processImagePart up to its await: the part becomes Expanding and
\* expandImageWithGemini is called with the crop and the settings passed in.
Dispatch(itemId, partNumber, croppedBase64, currentSettings) ==
    /\ items' = MarkExpanding(items, itemId, partNumber)
    /\ calls' = calls (+) SetToBag({[itemId |-> itemId, partNumber |-> partNumber,
                                     croppedBase64 |-> croppedBase64,
                                     settings |-> currentSettings]})

\* Lines 146 and 147 of the continuation: one processImagePart call per part.
DispatchPart1 ==
    /\ pc = "l146"
    /\ Dispatch(Head(batch.queue), 1, batch.parts[1], batch.settings)
    /\ pc' = "l147"
    /\ lastOp' = NoOp
    /\ UNCHANGED << splitDirection, isProcessing, showSettings, settings, uploads,
                    batch, nextId, splits >>

\* Mutant of DispatchPart2: line 147 repeats line 146.
DispatchPart2Repeats1 ==
    /\ pc = "l147"
    /\ Dispatch(Head(batch.queue), 1, batch.parts[1], batch.settings)
    /\ pc' = "l129"
    /\ lastOp' = NoOp
    /\ UNCHANGED << splitDirection, isProcessing, showSettings, settings, uploads,
                    batch, nextId, splits >>

DispatchPart2 ==
    /\ pc = "l147"
    /\ Dispatch(Head(batch.queue), 2, batch.parts[2], batch.settings)
    /\ pc' = "l129"
    /\ lastOp' = NoOp
    /\ UNCHANGED << splitDirection, isProcessing, showSettings, settings, uploads,
                    batch, nextId, splits >>

\* End of a loop iteration: on to the next captured item, or out of the loop.
NextIteration ==
    /\ pc = "l129"
    /\ LoopHead(Tail(batch.queue), batch)
    /\ lastOp' = NoOp
    /\ UNCHANGED << splitDirection, showSettings, settings, uploads, calls, nextId >>

\* ------------------------------------------------------------- expansion results
\* Mutant of ExpandResolve: the result is stored on the item as a whole, over
\* what the sibling's call stored.
ExpandResolveOverSibling(c, expandedBase64) ==
    /\ Quiescent
    /\ BagIn(c, calls)
    /\ calls' = calls (-) SetToBag({c})
    /\ [ok |-> TRUE, url |-> expandedBase64] \in ExpandOutcomes(c.croppedBase64, c.settings)
    /\ items' = MarkDone(MarkDone(items, c.itemId, 1, expandedBase64),
                         c.itemId, 2, expandedBase64)
    /\ lastOp' = NoOp
    /\ UNCHANGED << splitDirection, isProcessing, showSettings, settings, uploads,
                    batch, pc, nextId, splits >>

\* expandImageWithGemini returned an image for call c.
ExpandResolve(c, expandedBase64) ==
    /\ Quiescent
    /\ BagIn(c, calls)
    /\ calls' = calls (-) SetToBag({c})
    /\ [ok |-> TRUE, url |-> expandedBase64] \in ExpandOutcomes(c.croppedBase64, c.settings)
    /\ items' = MarkDone(items, c.itemId, c.partNumber, expandedBase64)
    /\ lastOp' = NoOp
    /\ UNCHANGED << splitDirection, isProcessing, showSettings, settings, uploads,
                    batch, pc, nextId, splits >>

\* Mutant of ExpandReject: the catch block records the error and calls
\* expandImageWithGemini again.
ExpandRejectRetries(c) ==
    /\ Quiescent
    /\ BagIn(c, calls)
    /\ [ok |-> FALSE, url |-> Null] \in ExpandOutcomes(c.croppedBase64, c.settings)
    /\ items' = MarkError(items, c.itemId, c.partNumber)
    /\ lastOp' = NoOp
    /\ UNCHANGED << splitDirection, isProcessing, showSettings, settings, uploads,
                    batch, pc, calls, nextId, splits >>

\* expandImageWithGemini threw for call c.
ExpandReject(c) ==
    /\ Quiescent
    /\ BagIn(c, calls)
    /\ calls' = calls (-) SetToBag({c})
    /\ [ok |-> FALSE, url |-> Null] \in ExpandOutcomes(c.croppedBase64, c.settings)
    /\ items' = MarkError(items, c.itemId, c.partNumber)
    /\ lastOp' = NoOp
    /\ UNCHANGED << splitDirection, isProcessing, showSettings, settings, uploads,
                    batch, pc, nextId, splits >>

\* ------------------------------------------------------------- retry, removal
\* Mutant of retryPart: the retry dispatches both parts of the item.
retryPartBoth(id, part) ==
    /\ Quiescent
    /\ id \in ItemIds(items)
    /\ PartOf(FindItem(items, id), part).status = Error
    /\ lastOp' = Op("retryPart", id, part)
    /\ LET item == FindItem(items, id)
       IN  /\ items' = MarkExpanding(MarkExpanding(items, id, 1), id, 2)
           /\ calls' = calls (+) SetToBag({
                  [itemId |-> id, partNumber |-> 1,
                   croppedBase64 |-> item.splitPart1.url, settings |-> settings]})
                 (+) SetToBag({
                  [itemId |-> id, partNumber |-> 2,
                   croppedBase64 |-> item.splitPart2.url, settings |-> settings]})
    /\ UNCHANGED << splitDirection, isProcessing, showSettings, settings, uploads,
                    batch, pc, nextId, splits >>

\* Mutant of retryPart: the button is shown for a part in any status but Idle
\* and Splitting.
retryPartAnyStatus(id, part) ==
    /\ Quiescent
    /\ id \in ItemIds(items)
    /\ PartOf(FindItem(items, id), part).status \in {Expanding, Done, Error}
    /\ lastOp' = Op("retryPart", id, part)
    /\ IF settings.apiKey = ""
       THEN /\ showSettings' = TRUE
            /\ UNCHANGED << items, calls >>
       ELSE /\ LET partData == PartOf(FindItem(items, id), part)
               IN  IF partData.url # Null
                   THEN Dispatch(id, part, partData.url, settings)
                   ELSE UNCHANGED << items, calls >>
            /\ UNCHANGED showSettings
    /\ UNCHANGED << splitDirection, isProcessing, settings, uploads, batch, pc,
                    nextId, splits >>

\* Click on the retry button of part `part` of item `id`; the card shows the
\* button only while that part is in status Error.
retryPart(id, part) ==
    /\ Quiescent
    /\ id \in ItemIds(items)
    /\ PartOf(FindItem(items, id), part).status = Error
    /\ lastOp' = Op("retryPart", id, part)
    /\ IF settings.apiKey = ""
       THEN /\ showSettings' = TRUE
            /\ UNCHANGED << items, calls >>
       ELSE /\ LET partData == PartOf(FindItem(items, id), part)
               IN  IF partData.url # Null
                   THEN Dispatch(id, part, partData.url, settings)
                   ELSE UNCHANGED << items, calls >>
            /\ UNCHANGED showSettings
    /\ UNCHANGED << splitDirection, isProcessing, settings, uploads, batch, pc,
                    nextId, splits >>

\* Click on the remove button of the card of item id.
removeItem(id) ==
    /\ Quiescent
    /\ id \in ItemIds(items)
    /\ items' = FilterOut(items, id)
    /\ lastOp' = Op("removeItem", id, 0)
    /\ UNCHANGED << splitDirection, isProcessing, showSettings, settings, uploads,
                    batch, pc, calls, nextId, splits >>

\* Click on the clear button (shown while the list is not empty), confirmed.
clearAll ==
    /\ Quiescent
    /\ Len(items) > 0
    /\ items' = << >>
    /\ lastOp' = Op("clearAll", 0, 0)
    /\ UNCHANGED << splitDirection, isProcessing, showSettings, settings, uploads,
                    batch, pc, calls, nextId, splits >>

\* ------------------------------------------------------------- specification
Next ==
    \/ OpenSettings
    \/ CloseSettings
    \/ \E k \in Keys : saveSettings(k)
    \/ \E d \in SplitDirection : setSplitDirection(d)
    \/ \E n \in 1..MaxItems : UploadStart(n)
    \/ \E n \in BagToSet(uploads) : handleFilesAdded(n)
    \/ \E n \in BagToSet(uploads) : UploadFail(n)
    \/ startProcessing
    \/ \E img \in UploadedImages : SplitResolve(img)
    \/ SplitReject
    \/ DispatchPart1
    \/ DispatchPart2
    \/ NextIteration
    \/ \E c \in BagToSet(calls) :
          \E o \in ExpandOutcomes(c.croppedBase64, c.settings) :
             o.ok /\ ExpandResolve(c, o.url)
    \/ \E c \in BagToSet(calls) : ExpandReject(c)
    \/ \E id \in Ids, part \in Parts : retryPart(id, part)
    \/ \E id \in Ids : removeItem(id)
    \/ clearAll

Spec == Init /\ [][Next]_vars

\* ------------------------------------------------------------- fairness
\* The pending splitImage promise settles.
SplitReturn == (\E img \in UploadedImages : SplitResolve(img)) \/ SplitReject

\* The pending expandImageWithGemini promise of part p of item id settles.
ExpandReturn(id, p) ==
    \E c \in BagToSet(calls) :
        /\ c.itemId = id
        /\ c.partNumber = p
        /\ \/ ExpandReject(c)
           \/ \E o \in ExpandOutcomes(c.croppedBase64, c.settings) :
                 o.ok /\ ExpandResolve(c, o.url)

\* Every split and every remote call eventually returns, and the event loop
\* runs a continuation that is ready: the synchronous code after an await, up
\* to the next await, is not held up.
Fairness ==
    /\ WF_vars(SplitReturn)
    /\ WF_vars(DispatchPart1)
    /\ WF_vars(DispatchPart2)
    /\ WF_vars(NextIteration)
    /\ \A id \in Ids : \A p \in Parts : WF_vars(ExpandReturn(id, p))

LiveSpec == Init /\ [][Next]_vars /\ Fairness

\* ------------------------------------------------------------- splitter on every size
\* MaxItems files have been uploaded and a key is stored; the batch then runs over
\* sources of every size in Images, in either direction.
SplitInit ==
    /\ items = [k \in 1..MaxItems |-> NewItem(MaxItems + 1 - k)]
    /\ splitDirection = Horizontal
    /\ isProcessing = FALSE
    /\ settings = [apiKey |-> "key"]
    /\ showSettings = FALSE
    /\ uploads = EmptyBag
    /\ batch = NoBatch
    /\ pc = "none"
    /\ calls = EmptyBag
    /\ nextId = MaxItems + 1
    /\ splits = [id \in Ids |-> 0]
    /\ lastOp = NoOp

SplitNext ==
    \/ \E d \in SplitDirection : setSplitDirection(d)
    \/ startProcessing
    \/ \E img \in Images : SplitResolve(img)
    \/ SplitReject
    \/ DispatchPart1
    \/ DispatchPart2
    \/ NextIteration

SplitSpec == SplitInit /\ [][SplitNext]_vars

\* ------------------------------------------------------------- expander on every response
\* One call of processImagePart is in flight for part 1 of an item, made with
\* any settings in Keys, and the remote service answers it with any response.
ExpandInit ==
    /\ \E s \in [apiKey : Keys], resp \in Responses :
          LET parts == splitImage(1, [w |-> MaxW, h |-> MaxH], Horizontal)
          IN  /\ items = << [NewItem(1) EXCEPT
                                !.splitPart1 = [url |-> parts[1], expandedUrl |-> Null,
                                                status |-> Expanding],
                                !.splitPart2 = [url |-> parts[2], expandedUrl |-> Null,
                                                status |-> Error]] >>
              /\ calls = SetToBag({[itemId |-> 1, partNumber |-> 1,
                                    croppedBase64 |-> parts[1], settings |-> s,
                                    response |-> resp]})
              /\ settings = s
              /\ showSettings = (s.apiKey = "")
    /\ splitDirection = Horizontal
    /\ isProcessing = FALSE
    /\ uploads = EmptyBag
    /\ batch = NoBatch
    /\ pc = "none"
    /\ nextId = 2
    /\ splits = [id \in Ids |-> IF id = 1 THEN 1 ELSE 0]
    /\ lastOp = NoOp

\* The await of processImagePart ends for call c: expandImageWithGemini
\* returned or threw, and the matching update is made (lines 91-112).
ReturnFromExpand(c) ==
    /\ Quiescent
    /\ BagIn(c, calls)
    /\ calls' = calls (-) SetToBag({c})
    /\ LET o == expandImageWithGemini(c.croppedBase64, c.settings, c.response)
       IN  /\ items' = IF o.ok
                       THEN MarkDone(items, c.itemId, c.partNumber, o.url)
                       ELSE MarkError(items, c.itemId, c.partNumber)
           /\ lastOp' = [op |-> "returned", id |-> c.itemId, part |-> c.partNumber,
                         call |-> c, requests |-> o.requests]
    /\ UNCHANGED << splitDirection, isProcessing, showSettings, settings, uploads,
                    batch, pc, nextId, splits >>

ExpandNext == \E c \in BagToSet(calls) : ReturnFromExpand(c)

ExpandSpec == ExpandInit /\ [][ExpandNext]_vars

\* ------------------------------------------------------------- properties
StatusOf(list, id, p) == PartOf(FindItem(list, id), p).status
Sibling(p) == 3 - p

\* C1: every part of a new item is Idle, and a part becomes Done only by a step
\* that finds it Expanding: Expanding is the status right before Done.
C1_DoneOnlyFromExpanding ==
    [][items' # items =>
         \A k \in 1..Len(items') :
            LET new == items'[k]
            IN  IF new.id \in ItemIds(items)
                THEN LET old == FindItem(items, new.id)
                     IN  \A p \in Parts :
                            (PartOf(new, p).status = Done /\ PartOf(old, p).status # Done)
                               => PartOf(old, p).status = Expanding
                ELSE \A p \in Parts : PartOf(new, p).status = Idle]_vars

\* A part is Done, with its expanded image stored.
C1_Witness ==
    \E id \in ItemIds(items), p \in Parts :
        /\ StatusOf(items, id, p) = Done
        /\ PartOf(FindItem(items, id), p).expandedUrl # Null

\* C2: a part in status Error changes status only to Expanding, and only by the
\* retry click on that part of that item.
C2_ErrorLeavesOnlyByRetry ==
    [][items' # items =>
         \A k \in 1..Len(items') :
            LET new == items'[k]
            IN  new.id \in ItemIds(items) =>
                   LET old == FindItem(items, new.id)
                   IN  \A p \in Parts :
                          (PartOf(old, p).status = Error /\ PartOf(new, p).status # Error)
                             => /\ PartOf(new, p).status = Expanding
                                /\ lastOp' = Op("retryPart", new.id, p)]_vars

\* A retry has just moved a part from Error to Expanding while another part of
\* the list is in status Error and stayed there.
C2_Witness ==
    /\ lastOp.op = "retryPart"
    /\ lastOp.id \in ItemIds(items)
    /\ StatusOf(items, lastOp.id, lastOp.part) = Expanding
    /\ \E id \in ItemIds(items), p \in Parts : StatusOf(items, id, p) = Error

\* C3: the step that records the failure of one part's call leaves the sibling
\* part of that item (status, crop, expanded image) as it was.
C3_FailureLeavesSibling ==
    [][\A c \in BagToSet(calls) :
          (ExpandReject(c) /\ c.itemId \in ItemIds(items))
             => /\ c.itemId \in ItemIds(items')
                /\ PartOf(FindItem(items', c.itemId), Sibling(c.partNumber))
                     = PartOf(FindItem(items, c.itemId), Sibling(c.partNumber))]_vars

\* Failures have been recorded next to a sibling that is Done, one that is
\* Expanding and one that is Error.
C3_Witness ==
    /\ \E id \in ItemIds(items), p \in Parts :
          StatusOf(items, id, p) = Error /\ StatusOf(items, id, Sibling(p)) = Done
    /\ \E id \in ItemIds(items), p \in Parts :
          /\ StatusOf(items, id, p) = Error
          /\ StatusOf(items, id, Sibling(p)) \in {Expanding, Error}

\* C4: removing an identifier that is not in the list returns the list as it
\* is, so a second removal of the same identifier changes nothing.
C4_RemoveMissingIsNoOp ==
    \A id \in Ids :
        /\ id \notin ItemIds(items) => FilterOut(items, id) = items
        /\ FilterOut(FilterOut(items, id), id) = FilterOut(items, id)

\* An item was just removed from a list that still holds another item.
C4_Witness ==
    /\ lastOp.op = "removeItem"
    /\ lastOp.id \notin ItemIds(items)
    /\ Len(items) > 0

\* C5: a click on the batch button while no key is configured opens the
\* settings dialog and changes nothing else: no call, no split, no status, no flag.
C5_StartWithoutKey ==
    [][(lastOp' = Op("startProcessing", 0, 0) /\ settings.apiKey = "")
          => /\ showSettings'
             /\ UNCHANGED << items, splitDirection, isProcessing, settings, uploads,
                             batch, pc, calls, nextId, splits >>]_vars

\* The batch button was clicked with items waiting and no key configured.
C5_Witness ==
    /\ lastOp.op = "startProcessing"
    /\ settings.apiKey = ""
    /\ showSettings
    /\ Len(items) > 0
    /\ calls = EmptyBag

\* The item the running batch is working on.
Current == Head(batch.queue)
\* A horizontal split has just stored its two crops for a source that is still listed.
HorizontalSplitStored ==
    pc = "l146" /\ batch.direction = Horizontal /\ Current \in ItemIds(items)

\* C6 as stated: widths floor(W/2) and W - floor(W/2), both of height H, for
\* every W >= 1.
C6_AsStated ==
    HorizontalSplitStored =>
        LET item == FindItem(items, Current)
            W == batch.img.w
            H == batch.img.h
        IN  /\ WidthOf(item.splitPart1.url) = W \div 2
            /\ WidthOf(item.splitPart2.url) = W - (W \div 2)
            /\ HeightOf(item.splitPart1.url) = H
            /\ HeightOf(item.splitPart2.url) = H

\* C6, amended: for W >= 2 both crops are floor(W/2) wide and H high, the second
\* being W - floor(W/2) wide exactly when W is even; for W = 1 both crops are
\* the empty data URL.
C6_BothHalvesFloor ==
    HorizontalSplitStored =>
        LET item == FindItem(items, Current)
            W == batch.img.w
            H == batch.img.h
        IN  /\ W >= 2 =>
                 /\ WidthOf(item.splitPart1.url) = W \div 2
                 /\ WidthOf(item.splitPart2.url) = W \div 2
                 /\ HeightOf(item.splitPart1.url) = H
                 /\ HeightOf(item.splitPart2.url) = H
                 /\ (WidthOf(item.splitPart2.url) = W - (W \div 2)) <=> (W % 2 = 0)
            /\ W = 1 =>
                 /\ item.splitPart1.url = << "data:", NoPixels >>
                 /\ item.splitPart2.url = << "data:", NoPixels >>

\* A source of odd width 3 has just been split horizontally.
C6_Witness ==
    /\ HorizontalSplitStored
    /\ batch.img.w = 3
    /\ FindItem(items, Current).splitPart2.url # Null

\* Position of a status in the order Idle, Splitting, Expanding, then Done or Error.
Rank(st) ==
    CASE st = Idle -> 0
      [] st = Splitting -> 1
      [] st = Expanding -> 2
      [] st \in {Done, Error} -> 3

\* C7 as stated: every status change moves strictly forward in that order, but
\* for Error to Expanding on retry.
C7_AsStated ==
    [][items' # items =>
         \A k \in 1..Len(items') :
            LET new == items'[k]
            IN  new.id \in ItemIds(items) =>
                   LET old == FindItem(items, new.id)
                   IN  \A p \in Parts :
                          PartOf(new, p).status # PartOf(old, p).status
                             => \/ Rank(PartOf(new, p).status) > Rank(PartOf(old, p).status)
                                \/ /\ PartOf(old, p).status = Error
                                   /\ PartOf(new, p).status = Expanding
                                   /\ lastOp' = Op("retryPart", new.id, p)]_vars

\* C7, amended: a status change moves strictly forward, or is Error to Expanding
\* on retry, or is Splitting to Idle in the step that stores the crops of a
\* successful split; a part that is Done keeps that status.
C7_ForwardButSplitDone ==
    [][items' # items =>
         \A k \in 1..Len(items') :
            LET new == items'[k]
            IN  new.id \in ItemIds(items) =>
                   LET old == FindItem(items, new.id)
                   IN  \A p \in Parts :
                          PartOf(new, p).status # PartOf(old, p).status
                             => /\ PartOf(old, p).status # Done
                                /\ \/ Rank(PartOf(new, p).status) > Rank(PartOf(old, p).status)
                                   \/ /\ PartOf(old, p).status = Error
                                      /\ PartOf(new, p).status = Expanding
                                      /\ lastOp' = Op("retryPart", new.id, p)
                                   \/ /\ PartOf(old, p).status = Splitting
                                      /\ PartOf(new, p).status = Idle
                                      /\ pc = "await" /\ pc' = "l146"
                                      /\ new.id = Current
                                      /\ PartOf(new, p).url # Null]_vars

\* The crops of a split were just stored and both parts are Idle again, while
\* another part of the list is Done.
C7_Witness ==
    /\ pc = "l146"
    /\ Current \in ItemIds(items)
    /\ \A p \in Parts :
          /\ StatusOf(items, Current, p) = Idle
          /\ PartOf(FindItem(items, Current), p).url # Null
    /\ \E id \in ItemIds(items), p \in Parts : StatusOf(items, id, p) = Done

\* The call processImagePart(id, p, url, s) awaits.
Call(id, p, url, s) ==
    [itemId |-> id, partNumber |-> p, croppedBase64 |-> url, settings |-> s]

\* C8: a retry of part p of item id, with a key configured and a crop stored,
\* adds exactly one call, for p with the stored crop; it starts no split and
\* leaves both crops, the sibling part and every other item as they were.
C8_RetryOnePart ==
    [][\A id \in Ids, p \in Parts :
          ( /\ lastOp' = Op("retryPart", id, p)
            /\ settings.apiKey # ""
            /\ id \in ItemIds(items)
            /\ PartOf(FindItem(items, id), p).url # Null )
          => /\ calls' = calls (+)
                   SetToBag({Call(id, p, PartOf(FindItem(items, id), p).url, settings)})
             /\ UNCHANGED << splits, pc, batch >>
             /\ ItemIds(items') = ItemIds(items)
             /\ \A q \in Parts :
                   PartOf(FindItem(items', id), q).url = PartOf(FindItem(items, id), q).url
             /\ PartOf(FindItem(items', id), Sibling(p))
                  = PartOf(FindItem(items, id), Sibling(p))
             /\ StatusOf(items', id, p) = Expanding
             /\ \A other \in ItemIds(items) \ {id} :
                   FindItem(items', other) = FindItem(items, other)]_vars

\* A retry was just made: its call is in flight with the stored crop, and the
\* sibling is not Expanding.
C8_Witness ==
    /\ lastOp.op = "retryPart"
    /\ lastOp.id \in ItemIds(items)
    /\ LET item == FindItem(items, lastOp.id)
           part == PartOf(item, lastOp.part)
       IN  /\ part.status = Expanding
           /\ part.url # Null
           /\ CopiesIn(Call(lastOp.id, lastOp.part, part.url, settings), calls) = 1
           /\ PartOf(item, Sibling(lastOp.part)).status \in {Done, Error}

\* The calls in flight for item id.
CallsOf(id) == {c \in BagToSet(calls) : c.itemId = id}

\* C9: splitImage is called at most once on each item's source, and when the
\* continuation of a successful split reaches the end of its loop iteration the
\* item has exactly two calls in flight, one per part, each with its own crop.
C9_SplitOnceDispatchTwice ==
    /\ \A id \in Ids : splits[id] <= 1
    /\ (pc = "l129" /\ batch.parts # Null) =>
          /\ CallsOf(Current) =
                {Call(Current, p, batch.parts[p], batch.settings) : p \in Parts}
          /\ \A c \in CallsOf(Current) : CopiesIn(c, calls) = 1

\* A split succeeded and both dispatches were made, in a run where an item was
\* uploaded after another had been processed.
C9_Witness ==
    /\ pc = "l129"
    /\ batch.parts # Null
    /\ splits[Current] = 1
    /\ \E id \in Ids \ {Current} : splits[id] = 1

\* C10, on states: no call is in flight for a part in status Error.
NoCallWhileError ==
    \A id \in ItemIds(items), p \in Parts :
        StatusOf(items, id, p) = Error =>
            ~ \E c \in CallsOf(id) : c.partNumber = p

\* C10, on steps: recording a failure removes the failed call, adds none, and
\* changes only the status of the part the call was made for; every dispatch
\* adds exactly one call, and that call sends a request.
FailureAndDispatchSteps ==
    /\ \A c \in BagToSet(calls) :
          ExpandReject(c) =>
             /\ calls' = calls (-) SetToBag({c})
             /\ ItemIds(items') = ItemIds(items)
             /\ \A id \in ItemIds(items) :
                   IF id = c.itemId
                   THEN FindItem(items', id) =
                           WithPart(FindItem(items, id), c.partNumber,
                              [PartOf(FindItem(items, id), c.partNumber)
                                  EXCEPT !.status = Error])
                   ELSE FindItem(items', id) = FindItem(items, id)
    /\ (DispatchPart1 \/ DispatchPart2 \/ (lastOp'.op = "retryPart" /\ items' # items))
          => \E c \in BagToSet(calls') :
                /\ calls' = calls (+) SetToBag({c})
                /\ SendsRequest(c.settings)

\* C10: a failed call sets the part it was made for to Error and triggers no
\* further request; no call is in flight for a part that is Error; each dispatch
\* makes one request.
C10_FailureStopsRequests ==
    [](NoCallWhileError) /\ [][FailureAndDispatchSteps]_vars

\* A call failed and its part is Error with no call in flight, while the
\* sibling's call is still awaited.
C10_Witness ==
    \E id \in ItemIds(items), p \in Parts :
        /\ StatusOf(items, id, p) = Error
        /\ CallsOf(id) # {}
        /\ \A c \in CallsOf(id) : c.partNumber = Sibling(p)

\* The split of item id failed: its parts are Splitting although the batch is
\* not waiting for its split.
SplitFailed(id) ==
    /\ id \in ItemIds(items)
    /\ \A p \in Parts : StatusOf(items, id, p) = Splitting
    /\ ~(pc = "await" /\ Current = id)

\* C11, the failing step: the continuation that leaves `await splitImage`
\* without crops changes neither the list nor the calls in flight, and goes to
\* the end of the loop iteration with nothing in flight for the item.
SplitFailureStep ==
    (pc = "await" /\ pc' # "await" /\ batch'.parts = Null)
       => /\ pc' = "l129"
          /\ UNCHANGED << items, calls, isProcessing >>
          /\ batch' = batch
          /\ CallsOf(Current) = {}

\* C11, the step after it: the loop takes the next captured item and starts
\* its split, or ends and resets the flag when none is left.
AfterSplitFailureStep ==
    (pc = "l129" /\ batch.parts = Null)
       => /\ calls' = calls
          /\ IF Tail(batch.queue) = << >>
             THEN pc' = "none" /\ ~isProcessing' /\ items' = items
             ELSE LET next == Head(Tail(batch.queue))
                  IN  /\ pc' = "await" /\ isProcessing'
                      /\ batch'.queue = Tail(batch.queue)
                      /\ splits' = [splits EXCEPT ![next] = @ + 1]
                      /\ items' = MarkSplitting(items, next)

\* C11, on states: an item whose split failed has no call in flight and no
\* crop or expanded image on either part, and neither part is Error.
SplitFailedUnprocessed ==
    \A id \in ItemIds(items) :
        SplitFailed(id) =>
            /\ CallsOf(id) = {}
            /\ \A p \in Parts :
                  /\ PartOf(FindItem(items, id), p).url = Null
                  /\ PartOf(FindItem(items, id), p).expandedUrl = Null
                  /\ StatusOf(items, id, p) # Error

\* C11: a failed split leaves the item unprocessed (no call, no crop, no
\* expanded image, no Error) and the batch goes on with the remaining items.
C11_SplitFailureSkipsItem ==
    /\ [](SplitFailedUnprocessed)
    /\ [][SplitFailureStep /\ AfterSplitFailureStep]_vars

\* The split of one item failed and the same batch has dispatched both parts
\* of a later item.
C11_Witness ==
    /\ pc = "l129"
    /\ batch.parts # Null
    /\ CallsOf(Current) # {}
    /\ \E id \in ItemIds(items) \ {Current} : SplitFailed(id) /\ splits[id] = 1

\* The calls that the step takes out of flight.  Only the return of a call
\* (ExpandResolve, ExpandReject) takes a call out.
CallsLeaving ==
    IF calls' = calls THEN {}
    ELSE {c \in BagToSet(calls) : CopiesIn(c, calls') < CopiesIn(c, calls)}

\* C12, additions and removals: a step that changes the set of identifiers is
\* the end of an upload, which only adds identifiers, or a removal or a
\* confirmed clear-all, which only remove some.
IdsChangeByUploadOrRemoval ==
    (items' # items /\ ItemIds(items') # ItemIds(items)) =>
        \/ /\ \E n \in BagToSet(uploads) : handleFilesAdded(n)
           /\ ItemIds(items) \subseteq ItemIds(items')
        \/ /\ \E id \in ItemIds(items) : removeItem(id)
           /\ ItemIds(items') \subseteq ItemIds(items)
        \/ /\ clearAll
           /\ ItemIds(items') = {}

\* C12, completions: the continuation of a split (success or failure) and the
\* return of an expansion call keep the identifiers and their order; the
\* return of a call whose item is no longer listed changes no item at all.
CompletionsKeepIds ==
    /\ pc = "await" /\ pc' \in {"l146", "l129"}
          => [k \in 1..Len(items') |-> items'[k].id] = [k \in 1..Len(items) |-> items[k].id]
    /\ \A c \in CallsLeaving :
          /\ [k \in 1..Len(items') |-> items'[k].id] = [k \in 1..Len(items) |-> items[k].id]
          /\ c.itemId \notin ItemIds(items) => items' = items

\* C12: identifiers are added only by upload and removed only by removal or
\* clear-all; completions of splits and of expansion calls never change them,
\* and the completion of a call of a removed item changes nothing in the list.
C12_IdsOnlyByUploadOrRemoval ==
    [][IdsChangeByUploadOrRemoval /\ CompletionsKeepIds]_vars

\* An item was just removed while a call for one of its parts is in flight and
\* can return, and another item is listed with a part that is Expanding.
C12_Witness ==
    /\ lastOp.op = "removeItem"
    /\ lastOp.id \notin ItemIds(items)
    /\ CallsOf(lastOp.id) # {}
    /\ Quiescent
    /\ \E id \in ItemIds(items), p \in Parts : StatusOf(items, id, p) = Expanding

\* The part p of item with the status and expanded image that outcome o of its
\* call gives it.
WithOutcome(item, p, o) ==
    WithPart(item, p,
             IF o.ok THEN [PartOf(item, p) EXCEPT !.status = Done, !.expandedUrl = o.url]
                     ELSE [PartOf(item, p) EXCEPT !.status = Error])

\* C13, on steps: the return of call c stores one of the outcomes of c on the
\* part the call was made for, and leaves every other part of every item as
\* the earlier returns left it.
OwnOutcomeStep ==
    \A c \in CallsLeaving :
        \E o \in ExpandOutcomes(c.croppedBase64, c.settings) :
            items' = [k \in 1..Len(items) |->
                         IF items[k].id = c.itemId
                         THEN WithOutcome(items[k], c.partNumber, o)
                         ELSE items[k]]

\* C13, on states: a part that is Done holds the image returned for the
\* request that carried its own crop; a part that is Error holds no image.
OwnResultStored ==
    \A k \in 1..Len(items), p \in Parts :
        LET part == PartOf(items[k], p)
        IN  /\ part.status = Done =>
                 /\ part.expandedUrl # Null
                 /\ part.expandedUrl[2].request = cleanBase64(part.url)
            /\ part.status = Error => part.expandedUrl = Null

\* C13: whatever the order in which calls return, each part ends with the
\* status and the image of its own call's outcome, and no return undoes what
\* another return stored.
C13_NoLostUpdate ==
    [](OwnResultStored) /\ [][OwnOutcomeStep]_vars

\* The calls returned out of dispatch order: in one item part 2 is Done while
\* part 1 is still Expanding, and another item holds a Done and an Error part.
C13_Witness ==
    \E id \in ItemIds(items) :
        /\ StatusOf(items, id, 2) = Done
        /\ StatusOf(items, id, 1) = Expanding
        /\ \E other \in ItemIds(items) \ {id} :
              \E p \in Parts :
                 /\ StatusOf(items, other, p) = Done
                 /\ StatusOf(items, other, Sibling(p)) = Error

\* Some part of some candidate of the response carries image data.
HoldsImage(resp) ==
    \E i \in 1..Len(resp.candidates) :
        \E k \in 1..Len(resp.candidates[i]) : resp.candidates[i][k] = "image"

\* Some part of the first candidate of the response carries image data.
FirstCandidateHoldsImage(resp) ==
    /\ Len(resp.candidates) >= 1
    /\ \E k \in 1..Len(resp.candidates[1]) : resp.candidates[1][k] = "image"

\* The image expandImageWithGemini returns for call c when it succeeds: the
\* first image data of the first candidate of the response to c's request.
FirstPayload(c) ==
    << "data:image/png;base64",
       [request |-> cleanBase64(c.croppedBase64),
        data |-> [candidate |-> 1, image |-> 1]] >>

\* A call has just returned; its part of the item.
Returned == lastOp.op = "returned"
ReturnedPart == PartOf(FindItem(items, lastOp.id), lastOp.part)

\* C14 as stated: the call fails exactly when there is no key, the request
\* errors, or the response holds no image data at all.
C14_AsStated ==
    Returned =>
        LET c == lastOp.call
        IN  /\ ReturnedPart.status \in {Done, Error}
            /\ (ReturnedPart.status = Error)
                  <=> \/ c.settings.apiKey = ""
                      \/ c.response.error
                      \/ ~HoldsImage(c.response)
            /\ lastOp.requests = (IF c.settings.apiKey = "" THEN 0 ELSE 1)
            /\ ReturnedPart.status = Done => ReturnedPart.expandedUrl = FirstPayload(c)

\* C14, amended: the call fails exactly when there is no key, the request
\* errors, or the first candidate of the response holds no image data (image
\* data in a later candidate is not looked at); it sends no request without a
\* key and one request otherwise; when it succeeds it returns the first image
\* data of the first candidate.
C14_FailsUnlessFirstCandidateImage ==
    Returned =>
        LET c == lastOp.call
        IN  /\ ReturnedPart.status \in {Done, Error}
            /\ (ReturnedPart.status = Error)
                  <=> \/ c.settings.apiKey = ""
                      \/ c.response.error
                      \/ ~FirstCandidateHoldsImage(c.response)
            /\ lastOp.requests = (IF c.settings.apiKey = "" THEN 0 ELSE 1)
            /\ ReturnedPart.status = Done => ReturnedPart.expandedUrl = FirstPayload(c)
            /\ [ok |-> ReturnedPart.status = Done, url |-> ReturnedPart.expandedUrl]
                  \in ExpandOutcomes(c.croppedBase64, c.settings)

\* A call made with a key has failed on a response without error whose only
\* image data is in a later candidate.
C14_Witness ==
    /\ Returned
    /\ ReturnedPart.status = Error
    /\ lastOp.call.settings.apiKey # ""
    /\ ~lastOp.call.response.error
    /\ HoldsImage(lastOp.call.response)
    /\ ~FirstCandidateHoldsImage(lastOp.call.response)

\* C15: in every state and for every part, the status is Done exactly when an
\* expanded image is stored; a part that is Expanding, Done or Error has its
\* crop stored; and the two parts of an item have both a crop or none.
C15_PartFieldsAgree ==
    \A k \in 1..Len(items) :
        /\ \A p \in Parts :
              LET part == PartOf(items[k], p)
              IN  /\ (part.status = Done) <=> (part.expandedUrl # Null)
                  /\ part.status \in {Expanding, Done, Error} => part.url # Null
        /\ (items[k].splitPart1.url = Null) <=> (items[k].splitPart2.url = Null)

\* The list holds an item with a Done part and an Error part, both with their
\* crops, next to an item that was never split.
C15_Witness ==
    /\ \E k \in 1..Len(items), p \in Parts :
          /\ PartOf(items[k], p).status = Done
          /\ PartOf(items[k], p).expandedUrl # Null
          /\ PartOf(items[k], Sibling(p)).status = Error
          /\ PartOf(items[k], Sibling(p)).url # Null
    /\ \E k \in 1..Len(items) :
          /\ items[k].splitPart1.url = Null
          /\ items[k].splitPart1.status = Idle

\* The number of calls in flight for part p of item id.
InFlight(id, p) ==
    LET S == {c \in BagToSet(calls) : c.itemId = id /\ c.partNumber = p}
    IN  IF S = {} THEN 0
        ELSE IF Cardinality(S) > 1 THEN 2
        ELSE CopiesIn(CHOOSE c \in S : TRUE, calls)

\* C16: at most one call is in flight for a part of an item, listed or removed;
\* a listed part has a call in flight exactly while it is Expanding, so the
\* result that a return stores is that of the last call dispatched for it.
C16_OneCallPerPart ==
    \A id \in Ids, p \in Parts :
        /\ InFlight(id, p) <= 1
        /\ id \in ItemIds(items) =>
              ((InFlight(id, p) = 1) <=> (StatusOf(items, id, p) = Expanding))

\* A retry has just dispatched the second call made for a part, the first
\* having failed, while the call of the sibling part is still in flight.
C16_Witness ==
    /\ lastOp.op = "retryPart"
    /\ lastOp.id \in ItemIds(items)
    /\ InFlight(lastOp.id, lastOp.part) = 1
    /\ InFlight(lastOp.id, Sibling(lastOp.part)) = 1

\* Item id was created and is no longer in the list.
Removed(id) == id < nextId /\ id \notin ItemIds(items)

\* C17 as stated: once an item is removed, no step starts a split of its
\* source and no step dispatches a call for one of its parts.
C17_AsStated ==
    [][\A id \in Ids :
          Removed(id) =>
             /\ splits'[id] = splits[id]
             /\ \A c \in BagToSet(calls') :
                   c.itemId = id => CopiesIn(c, calls') <= CopiesIn(c, calls)]_vars

\* What the code does in that case: the running batch has split the source of
\* a removed item and dispatched a call for it.
C17_Witness ==
    /\ pc = "l147"
    /\ Removed(Current)
    /\ InFlight(Current, 1) = 1

\* SplitFailed(id) in the state a step leads to.
SplitFailedNext(id) ==
    /\ id \in ItemIds(items')
    /\ \A p \in Parts : StatusOf(items', id, p) = Splitting
    /\ ~(pc' = "await" /\ Head(batch'.queue) = id)

\* C18, on steps: an item whose split failed and that is still listed after
\* the step is as it was, still failed; and a batch start does not capture it.
SplitFailedStaysStep ==
    \A k \in 1..Len(items) :
        LET id == items[k].id
        IN  (items[k].splitPart1.status = Splitting /\ SplitFailed(id)
                /\ id \in ItemIds(items'))
               => /\ SplitFailedNext(id)
                  /\ FindItem(items', id) = items[k]
                  /\ pc = "none" => \A j \in 1..Len(batch'.queue) : batch'.queue[j] # id

\* C18, on states: retry has nothing to act on for such an item: neither part
\* is Error (no retry button) and neither has a crop (retryPart dispatches
\* only a part with a crop).
SplitFailedNoRetry ==
    \A id \in ItemIds(items) :
        SplitFailed(id) =>
            \A p \in Parts :
               /\ StatusOf(items, id, p) # Error
               /\ PartOf(FindItem(items, id), p).url = Null

\* C18: after its split failed an item keeps both parts in Splitting for as
\* long as it is listed: no batch start captures it and retry cannot act on it.
C18_SplitFailedIsStuck ==
    [](SplitFailedNoRetry) /\ [][SplitFailedStaysStep]_vars

\* A batch was just started while an item whose split failed in an earlier
\* batch is listed; the new batch is splitting another item.
C18_Witness ==
    /\ lastOp.op = "startProcessing"
    /\ pc = "await"
    /\ \E id \in ItemIds(items) \ {Current} : SplitFailed(id)

\* C19: when every split and every remote call returns, a part that is
\* Expanding becomes Done or Error unless its item is removed, and the
\* processing flag set by a batch start is reset, whether or not splits of the
\* batch fail.
C19_EverythingReturns ==
    /\ \A id \in Ids : \A p \in Parts :
          (id \in ItemIds(items) /\ StatusOf(items, id, p) = Expanding)
             ~> (id \notin ItemIds(items) \/ StatusOf(items, id, p) \in {Done, Error})
    /\ isProcessing ~> ~isProcessing

\* A batch in which one split failed has ended: the flag is reset, and every
\* call of the item that was split has returned.
C19_Witness ==
    /\ ~isProcessing
    /\ pc = "none"
    /\ calls = EmptyBag
    /\ \E id \in ItemIds(items) : SplitFailed(id)
    /\ \E id \in ItemIds(items) : \A p \in Parts : StatusOf(items, id, p) \in {Done, Error}

====
